---- MODULE Spec2Model ----
(***************************************************************************)
(* Model of the notification service's per-message pipeline:               *)
(*   OrderEventConsumer._processSingleMessageWork                          *)
(*     -> NotificationEngine.processNotificationEvent                      *)
(*        -> OrderService.getOrderInfo (cache, health gate, quick retry)   *)
(*        -> ConfigService.getStoreChannelConfigs                          *)
(*        -> strategy.send / NotificationLogService.logAttempt             *)
(*     -> XACK or not.                                                     *)
(* The environment (order API, shared cache, Redis, health prober,        *)
(* strategies, configuration store) is nondeterministic.                   *)
(***************************************************************************)
EXTENDS Integers, Sequences, FiniteSets, TLC

(* ---------------- program constants (config defaults) ---------------- *)
ORDER_SERVICE_MAX_NOTIFICATION_AGE_MS == 600000
ORDER_SERVICE_QUICK_RETRY_ATTEMPTS == 2
ORDER_SERVICE_QUICK_RETRY_DELAY_MS == 1000
DEFAULT_HTTP_TIMEOUT_MS == 5000
FALLBACK_ORDER_SERVICE_TOKEN == ""

\* OrderEventConsumer.stop: local constants of the graceful wait.
gracefulShutdownTimeout == 30000
pollInterval == 500

(* ---------------- bounds of the model ---------------- *)
MaxMessages == 2
MaxConfigs == 2
StartNow == 1000000
JustInsideMs == 500
\* Deployment settings (environment variables, default 10 each), taken small here.
STREAM_MAX_CONCURRENT_TASKS == 2
STREAM_CONSUMER_BATCH_SIZE == 2
\* pollMessages coroutines that are alive at the same time.
MaxLoops == 2
\* Stream entries the model follows from XADD to XACK.
MaxEntries == 3
\* 500 ms waits of one stop() call that are followed entry by entry.
MaxStopWaits == 2
\* OrderServiceHealthChecker.start() calls suspended at the same time.
MaxStartCalls == 2
\* Interval timers alive at the same time.
MaxTimers == 2
\* Timer-started runCheckCycle calls in flight at the same time.
MaxCycles == 1

(* ---------------- enumerations ---------------- *)
NotificationEventType == {"order_created", "order_paid"}
RegisteredChannels == {"wecom_bot", "wechat_mp"}
ChannelType == {"wechat_mp", "wecom_bot", "cloud_speaker", "no_config"}
CONFIG_ISSUE_CHANNEL_MARKER == "no_config"

ApiOutcomes == {"200ok", "200invalid", "404", "4xx", "5xx", "neterr", "timeout"}
RetryableOutcomes == {"5xx", "neterr", "timeout"}
DefinitiveOutcomes == {"404", "4xx"}
CacheContents == {"absent", "valid", "unparseable", "no_order_id", "other_store"}
SendOutcomes == {"ok", "fail", "throw"}

NoMsg == [orderId |-> "", token |-> "", event |-> "", storeCode |-> "", timestamp |-> 0]
NoRaw == [evenLen |-> TRUE, orderId |-> "", token |-> "", event |-> "", storeCode |-> "",
          tsKind |-> "absent", tsVal |-> 0]
NoResult == [kind |-> "none", cls |-> "", attemptsMade |-> 0]

VARIABLES
  pc,                  \* position of the worker in the pipeline
  now,                 \* Date.now()
  msgCount,            \* messages received so far
  raw,                 \* the stream entry's fields
  msg,                 \* the parsed StreamMessage
  parsedOk,            \* parseMessage returned non-null
  cacheEntry,          \* content of shared_cache:order_info:{storeCode}:{orderId}
  redisUp,             \* Redis answers commands
  healthCheckEnabled,  \* config.ORDER_SERVICE_HEALTH_CHECK_ENABLED
  healthFlag,          \* value of the health status key: "1", "0" or "none"
  currentHealthStatus, \* the checker's module-level local status
  lastProbe,           \* result of the last completed checkOrderStatus(), "none" before it
  calledAt,            \* Date.now() when getOrderInfo was entered
  gateHealthySeen,     \* the gate reported healthy at some instant of the call
  cacheReads,          \* RedisService.get calls on the order cache by this call
  httpCalls,           \* HTTP requests sent to the order API by this call
  apiOutcomes,         \* what the API answered to each request of this call
  fetchCalls,          \* calls of _fetchOrderInfoFromApiOnce by this call
  attemptsMade,        \* getOrderInfo's local counter
  rres,                \* how getOrderInfo ended
  engineCalls,         \* calls of processNotificationEvent for this message
  configLoads,         \* calls of getStoreChannelConfigs for this message
  configs,             \* the channel configurations returned
  configStoreFailed,   \* getStoreChannelConfigs caught an error (cache entry or database)
  idx,                 \* position of the engine's for-loop
  sendResults,         \* what each configuration's strategy did ("none": not invoked)
  logCalls,            \* the logAttempt calls of this message, in order
  engineOutcome,       \* how processNotificationEvent ended
  xacks                \* XACK commands issued for this message

\* The consumer object, its polling loops and a stop() call.
VARIABLES
  isRunning,           \* OrderEventConsumer.isRunning
  pollTimeoutId,       \* OrderEventConsumer.pollTimeoutId: 0 = null, l = the timer of loop l
  activeCount,         \* limit.activeCount
  pendingCount,        \* limit.pendingCount
  starting,            \* start() calls awaiting ensureConsumerGroup
  loopPc,              \* the await each pollMessages coroutine is suspended at
  countToFetch,        \* COUNT of each coroutine's XREADGROUP in flight
  timerCleared,        \* the timer of the coroutine's backoff sleep was cleared
  iterGate,            \* what the health gate answered in the coroutine's current iteration
                       \* ("recheck": consulting the gate again after an unhealthy pause)
  stopPc,              \* the stop() call: "idle", "waiting" or "returned"
  waited,              \* stop()'s local `waited`
  returnedEarly,       \* the last stop() returned with waited < gracefulShutdownTimeout
  leftAtReturn,        \* activeCount + pendingCount when the last stop() returned
  stopRequested,       \* stop() was called; no start() was called or took effect since
  groupExists,         \* Redis: the consumer group exists on the stream
  lastDelivered,       \* Redis: the group's last-delivered-id (entries are 1, 2, ...)
  pel,                 \* Redis: the group's pending entries list
  submitted,           \* this.limit(...) calls made for each entry
  task,                \* each entry's worker: "none", "queued", "running" or "settled"
  engineRuns,          \* processNotificationEvent calls made for each entry
  xackCalls,           \* XACK commands issued for each entry
  stoppedInRead        \* stop() was called while the coroutine's XREADGROUP is in flight

\* The health checker's timer and its start() calls.
VARIABLES
  intervalId,          \* module-level intervalId: 0 = null, t = the interval timer t
  liveTimers,          \* interval timers created by setInterval and not cleared
  startPc,             \* each start() call: "none" or "cycle" (awaiting runCheckCycle)
  cyclesInFlight,      \* runCheckCycle calls made by an interval timer and not finished
  checkerStopped       \* stop() has returned and start() has not been called since

checkerVars == <<intervalId, liveTimers, startPc, cyclesInFlight, checkerStopped>>

ledgerVars == <<lastDelivered, pel, submitted, task, engineRuns, xackCalls, stoppedInRead>>
streamVars == <<groupExists, ledgerVars>>

consumerVars == <<isRunning, pollTimeoutId, activeCount, pendingCount, starting, loopPc,
                  countToFetch, timerCleared, iterGate, stopPc, waited, returnedEarly,
                  leftAtReturn, stopRequested, streamVars>>

pipelineVars == <<pc, now, msgCount, raw, msg, parsedOk, cacheEntry, redisUp, healthCheckEnabled,
          healthFlag, currentHealthStatus, lastProbe, calledAt, gateHealthySeen, cacheReads,
          httpCalls,
          apiOutcomes, fetchCalls, attemptsMade, rres, engineCalls, configLoads, configs,
          configStoreFailed, idx,
          sendResults, logCalls, engineOutcome, xacks>>

vars == <<pipelineVars, consumerVars, checkerVars>>

envVars == <<redisUp, healthFlag, currentHealthStatus, lastProbe>>
msgVars == <<raw, msg, parsedOk, cacheEntry>>
resolverVars == <<calledAt, cacheReads, httpCalls, apiOutcomes, fetchCalls, attemptsMade, rres>>
engineVars == <<engineCalls, configLoads, configs, configStoreFailed, idx, sendResults, logCalls,
                engineOutcome>>

(* ---------------- OrderEventConsumer.parseMessage ---------------- *)
\* Truthiness of a string field: absent and '' are falsy.
Truthy(s) == s # ""

\* Number(string): a decimal literal gives its value, a string of white space gives 0,
\* any other text gives NaN.
ToNumber(kind, val) ==
  IF kind = "num" THEN [nan |-> FALSE, v |-> val]
  ELSE IF kind = "blank" THEN [nan |-> FALSE, v |-> 0]
  ELSE [nan |-> TRUE, v |-> 0]

parseMessage(r) ==
  IF ~r.evenLen THEN [ok |-> FALSE, m |-> NoMsg]
  ELSE
    LET tsUndefined == r.tsKind = "absent"     \* messageObject.timestamp ? Number(..) : undefined
        ts == ToNumber(r.tsKind, r.tsVal)
        tsNaN == ~tsUndefined /\ ts.nan        \* isNaN(Number('abc'))
    IN IF ~Truthy(r.orderId) \/ ~Truthy(r.event) \/ ~Truthy(r.storeCode) \/ tsUndefined \/ tsNaN
       THEN [ok |-> FALSE, m |-> NoMsg]
       ELSE IF r.event \notin NotificationEventType
       THEN [ok |-> FALSE, m |-> NoMsg]
       ELSE [ok |-> TRUE,
             m |-> [orderId |-> r.orderId, token |-> r.token, event |-> r.event,
                    storeCode |-> r.storeCode, timestamp |-> ts.v]]

(* ---------------- OrderServiceHealthChecker ---------------- *)
\* RedisService.get swallows Redis errors and returns null.
RedisGet(up, value) == IF up THEN value ELSE "none"

HealthyFromIgnoresSwitch(enabled, up, flag, cur) ==
  LET status == RedisGet(up, flag)
  IN IF status = "1" THEN TRUE
     ELSE IF status = "0" THEN FALSE
     ELSE cur

HealthyFromMutant(enabled, up, flag, cur) ==
  IF ~enabled THEN TRUE
  ELSE LET status == RedisGet(up, flag)
       IN IF status = "0" THEN FALSE ELSE TRUE

HealthyFrom(enabled, up, flag, cur) ==
  IF ~enabled THEN TRUE
  ELSE LET status == RedisGet(up, flag)
       IN IF status = "1" THEN TRUE
          ELSE IF status = "0" THEN FALSE
          ELSE cur

isOrderServiceHealthy == HealthyFrom(healthCheckEnabled, redisUp, healthFlag, currentHealthStatus)

(* ---------------- OrderService ---------------- *)
\* `originalEventTimestamp && Date.now() - originalEventTimestamp > MAX_AGE`: 0 is falsy.
NotificationExpired(ts, t) == ts # 0 /\ t - ts > ORDER_SERVICE_MAX_NOTIFICATION_AGE_MS

CacheHitNever(up, entry) == FALSE

CacheHitAnyEntry(up, entry) == RedisGet(up, entry) # "absent"

\* The cache lookup returns the entry only when it parses, has order_id and its store matches.
CacheHit(up, entry) == RedisGet(up, entry) = "valid"

HealthGateBlocksMutant(enabled, healthy) == FALSE
\* Step 3: fail fast when health checking is enabled and the gate says unhealthy.
HealthGateBlocks(enabled, healthy) == enabled /\ ~healthy

EffectiveToken(streamToken) == IF Truthy(streamToken) THEN streamToken ELSE FALLBACK_ORDER_SERVICE_TOKEN

\* _fetchOrderInfoFromApiOnce: "order" (returns OrderInfo), "null" or "throw".
FetchResult(outcome) ==
  IF outcome = "200ok" THEN "order"
  ELSE IF outcome = "200invalid" THEN "null"
  ELSE IF outcome = "404" THEN "null"
  ELSE IF outcome = "5xx" THEN "throw"
  ELSE IF outcome \in {"neterr", "timeout"} THEN "throw"
  ELSE "null"

quickRetryAttempts == ORDER_SERVICE_QUICK_RETRY_ATTEMPTS

QuickAttemptNextNoRetry(fetched, made) ==
  IF fetched = "order" THEN "return" ELSE "throw"

QuickAttemptNextMutant(fetched, made) ==
  IF fetched = "order" THEN "return"
  ELSE IF made + 1 = quickRetryAttempts THEN "throw" ELSE "retry"
\* The try/catch of one quick attempt.  The CriticalOrderInfoError thrown for a null result
\* is thrown inside the try block, so the catch receives it like any fetch error.
QuickAttemptNext(fetched, made) ==
  IF fetched = "order" THEN "return"
  ELSE IF made = quickRetryAttempts THEN "throw" ELSE "retry"

OSCriticalAsPlainError(n) == [kind |-> "throw", cls |-> "Error", attemptsMade |-> n]

OSCritical(n) == [kind |-> "throw", cls |-> "OrderService.CriticalOrderInfoError", attemptsMade |-> n]
Resolved == [kind |-> "ok", cls |-> "", attemptsMade |-> 0]

(* ---------------- NotificationEngine ---------------- *)
\* `error instanceof CriticalOrderInfoError`, the class imported from '../types'.
InstanceOfCritical(err) == err.kind = "throw" /\ err.cls = "types.CriticalOrderInfoError"

ValidStoreCode(s) == Truthy(s) /\ s # " "     \* non-empty after trim()

EngineAfterResolveMutant(r) == "configs"
\* The try/catch around getOrderInfo: an exception goes to the catch block.
EngineAfterResolve(r) == IF r.kind = "throw" THEN "catch" ELSE "configs"

EngineCatchAttempts(err) == IF InstanceOfCritical(err) THEN err.attemptsMade ELSE 0

EngineRethrownMutant(err) == err
EngineRethrown(err) ==
  IF InstanceOfCritical(err) THEN err
  ELSE [kind |-> "throw", cls |-> "types.CriticalOrderInfoError",
        attemptsMade |-> EngineCatchAttempts(err)]

NoChannelConfigsMutant(cs) == FALSE
\* `!channelConfigs || channelConfigs.length === 0`
NoChannelConfigs(cs) == Len(cs) = 0

getNotificationStrategyForAny(channelType) == TRUE

getNotificationStrategy(channelType) == channelType \in RegisteredChannels

SendStatusAlwaysSuccess(r) == "success"

SendStatus(r) == IF r = "ok" THEN "success" ELSE "failed"

SendDispositionAbort(r) == IF r = "throw" THEN "abort" ELSE "continue"
SendDispositionPropagate(r) == IF r = "throw" THEN "propagate" ELSE "continue"
\* The try/catch inside the for-loop: a throwing strategy is caught in the iteration.
SendDisposition(r) == "continue"

\* NotificationLogService.logAttempt: defaults, then the required-fields check.
logAttempt(e) == [e EXCEPT !.valid = Truthy(e.store_code) /\ Truthy(e.channel_type) /\ Truthy(e.status)]

LogEntry(store, channel, status, retry, cfg) ==
  [store_code |-> store, channel_type |-> channel, status |-> status,
   retry_count |-> retry, cfg |-> cfg, valid |-> TRUE]

(* ---------------- OrderEventConsumer._processSingleMessageWork ---------------- *)
WorkerShouldAckMutant(outcome) == TRUE
WorkerShouldAck(outcome) ==
  IF outcome.kind = "returned" THEN TRUE
  ELSE IF InstanceOfCritical(outcome) THEN FALSE
  ELSE TRUE

\* ackMessage issues XACK unless the id is empty or '0-0' (never the case for a read entry).
ackMessage(n) == n + 1

(* ---------------- inputs ---------------- *)
TimestampInputs(t) ==
  {0,
   t - ORDER_SERVICE_MAX_NOTIFICATION_AGE_MS - 1,
   t - ORDER_SERVICE_MAX_NOTIFICATION_AGE_MS,
   t - ORDER_SERVICE_MAX_NOTIFICATION_AGE_MS + JustInsideMs,
   t}

\* A well-formed entry, varied in the fields the pipeline looks at.
WellFormedRaw(t) ==
  [evenLen : {TRUE}, orderId : {"1"}, token : {"", "tok"}, event : {"order_created"},
   storeCode : {" ", "S1"}, tsKind : {"num"}, tsVal : TimestampInputs(t)]

BaseRaw(t) == [evenLen |-> TRUE, orderId |-> "1", token |-> "tok", event |-> "order_created",
               storeCode |-> "S1", tsKind |-> "num", tsVal |-> t]

\* Entries with one defect each.  tsKind: "num" a decimal literal, "absent" no field or '',
\* "nan" text such as 'abc', "blank" a string of white space.
DefectiveRaw(t) ==
  {[BaseRaw(t) EXCEPT !.evenLen = FALSE],
   [BaseRaw(t) EXCEPT !.orderId = ""],
   [BaseRaw(t) EXCEPT !.event = ""],
   [BaseRaw(t) EXCEPT !.event = "bogus"],
   [BaseRaw(t) EXCEPT !.storeCode = ""],
   [BaseRaw(t) EXCEPT !.tsKind = "absent", !.tsVal = 0],
   [BaseRaw(t) EXCEPT !.tsKind = "nan", !.tsVal = 0],
   [BaseRaw(t) EXCEPT !.tsKind = "blank", !.tsVal = 0]}

RawMessages(t) == WellFormedRaw(t) \cup DefectiveRaw(t)

ConfigOf(ch) == [channel_type |-> ch, enabled |-> TRUE]
ConfiguredChannels == {"wecom_bot", "cloud_speaker"}
ConfigLists ==
  UNION {[1..n -> {ConfigOf(ch) : ch \in ConfiguredChannels}] : n \in 0..MaxConfigs}

\* The cache key of the store's configurations: absent, not JSON, or a stored list.
ConfigCacheEntries == {"none", "unparseable", "list"}

\* The try block of getStoreChannelConfigs throws: JSON.parse of the cached string, or the
\* database query after a cache miss (RedisService.get and setex swallow their errors).
ConfigStoreFails(cached, dbOk) ==
  IF cached = "list" THEN FALSE
  ELSE IF cached = "unparseable" THEN TRUE
  ELSE ~dbOk

getStoreChannelConfigsStale(cached, dbOk, stored) == stored
\* ConfigService.getStoreChannelConfigs: the cached list, else the rows of the database
\* (enabled = 1), and [] from the catch block.
getStoreChannelConfigs(cached, dbOk, stored) ==
  IF ConfigStoreFails(cached, dbOk) THEN <<>> ELSE stored

\* The pollMessages coroutines the model distinguishes.
Loops == 1..MaxLoops
Entries == 1..MaxEntries
StartCalls == 1..MaxStartCalls
TimerIds == 1..MaxTimers

(* ---------------- initial state ---------------- *)
PipelineInit ==
  /\ pc = "idle"
  /\ now = StartNow
  /\ msgCount = 0
  /\ raw = NoRaw
  /\ msg = NoMsg
  /\ parsedOk = FALSE
  /\ cacheEntry = "absent"
  /\ redisUp = TRUE
  /\ healthCheckEnabled \in BOOLEAN
  /\ healthFlag = "none"
  /\ currentHealthStatus = FALSE
  /\ lastProbe = "none"
  /\ calledAt = 0
  /\ gateHealthySeen = FALSE
  /\ cacheReads = 0
  /\ httpCalls = 0
  /\ apiOutcomes = <<>>
  /\ fetchCalls = 0
  /\ attemptsMade = 0
  /\ rres = NoResult
  /\ engineCalls = 0
  /\ configLoads = 0
  /\ configs = <<>>
  /\ configStoreFailed = FALSE
  /\ idx = 0
  /\ sendResults = <<>>
  /\ logCalls = <<>>
  /\ engineOutcome = NoResult
  /\ xacks = 0

\* OrderEventConsumer's field initialisers and constructor.
ConsumerInit ==
  /\ isRunning = FALSE
  /\ pollTimeoutId = 0
  /\ activeCount = 0
  /\ pendingCount = 0
  /\ starting = 0
  /\ loopPc = [l \in Loops |-> "none"]
  /\ countToFetch = [l \in Loops |-> 0]
  /\ timerCleared = [l \in Loops |-> FALSE]
  /\ iterGate = [l \in Loops |-> "none"]
  /\ stopPc = "idle"
  /\ waited = 0
  /\ returnedEarly = FALSE
  /\ leftAtReturn = 0
  /\ stopRequested = FALSE
  /\ groupExists = FALSE
  /\ lastDelivered = 0
  /\ pel = {}
  /\ submitted = [e \in Entries |-> 0]
  /\ task = [e \in Entries |-> "none"]
  /\ engineRuns = [e \in Entries |-> 0]
  /\ xackCalls = [e \in Entries |-> 0]
  /\ stoppedInRead = [l \in Loops |-> FALSE]

\* OrderServiceHealthChecker's module-level state.
CheckerInit ==
  /\ intervalId = 0
  /\ liveTimers = {}
  /\ startPc = [c \in StartCalls |-> "none"]
  /\ cyclesInFlight = 0
  /\ checkerStopped = FALSE

Init == PipelineInit /\ ConsumerInit /\ CheckerInit

(* ---------------- environment ---------------- *)
InResolver == pc \in {"r_cache", "r_health", "r_attempt", "r_delay"}

\* Only the resolver reads Redis and the health status, so the environment's steps are
\* interleaved with the resolver's and with the worker being between two messages.
EnvObservable == InResolver \/ pc \in {"idle", "done", "r_start"}

\* Ghost: remember whether the gate reported healthy at some instant of the running call.
GateObserved(up, flag, cur) ==
  IF InResolver
  THEN gateHealthySeen \/ HealthyFrom(healthCheckEnabled, up, flag, cur)
  ELSE gateHealthySeen

\* runCheckCycle -> checkOrderStatus -> updateHealthStatusInRedis (only scheduled when enabled).
\* RedisService.set returns false on a Redis error, so the local status is always updated.
RunCheckCycle ==
  /\ UNCHANGED <<consumerVars, checkerVars>>
  /\ EnvObservable
  /\ healthCheckEnabled
  /\ \E isHealthy \in BOOLEAN :
       /\ healthFlag' = IF redisUp THEN (IF isHealthy THEN "1" ELSE "0") ELSE healthFlag
       /\ currentHealthStatus' = isHealthy
       /\ lastProbe' = IF isHealthy THEN "healthy" ELSE "unhealthy"
       /\ gateHealthySeen' = GateObserved(redisUp, healthFlag', isHealthy)
  /\ UNCHANGED <<pc, now, msgCount, msgVars, redisUp, healthCheckEnabled, resolverVars,
                 engineVars, xacks>>

\* The health key's TTL elapses.
HealthFlagExpires ==
  /\ UNCHANGED <<consumerVars, checkerVars>>
  /\ EnvObservable
  /\ healthFlag # "none"
  /\ healthFlag' = "none"
  /\ gateHealthySeen' = GateObserved(redisUp, "none", currentHealthStatus)
  /\ UNCHANGED <<pc, now, msgCount, msgVars, redisUp, healthCheckEnabled, currentHealthStatus,
                 lastProbe, resolverVars, engineVars, xacks>>

\* The key is shared: OrderServiceHealthChecker.start() of an instance with health checking
\* disabled writes '1', and the checker of any other instance on the same Redis writes
\* its own probe results.
SharedFlagWritten ==
  /\ UNCHANGED <<consumerVars, checkerVars>>
  /\ EnvObservable
  /\ redisUp
  /\ \E v \in {"0", "1"} :
       /\ healthFlag' = v
       /\ gateHealthySeen' = GateObserved(redisUp, v, currentHealthStatus)
  /\ UNCHANGED <<pc, now, msgCount, msgVars, redisUp, healthCheckEnabled, currentHealthStatus,
                 lastProbe, resolverVars, engineVars, xacks>>

\* Redis becomes unreachable or reachable again.
RedisToggle ==
  /\ UNCHANGED <<consumerVars, checkerVars>>
  /\ EnvObservable
  /\ redisUp' = ~redisUp
  /\ gateHealthySeen' = GateObserved(~redisUp, healthFlag, currentHealthStatus)
  /\ UNCHANGED <<pc, now, msgCount, msgVars, healthCheckEnabled, healthFlag, currentHealthStatus,
                 lastProbe,
                 resolverVars, engineVars, xacks>>

(* ---------------- consumer: a message is read and handed to a worker ---------------- *)
ReadMessage ==
  /\ UNCHANGED <<consumerVars, checkerVars>>
  /\ pc \in {"idle", "done"}
  /\ msgCount < MaxMessages
  /\ msgCount' = msgCount + 1
  /\ raw' \in RawMessages(now)
  /\ cacheEntry' \in CacheContents
  /\ msg' = NoMsg
  /\ parsedOk' = FALSE
  /\ calledAt' = 0
  /\ gateHealthySeen' = FALSE
  /\ cacheReads' = 0
  /\ httpCalls' = 0
  /\ apiOutcomes' = <<>>
  /\ fetchCalls' = 0
  /\ attemptsMade' = 0
  /\ rres' = NoResult
  /\ engineCalls' = 0
  /\ configLoads' = 0
  /\ configs' = <<>>
  /\ configStoreFailed' = FALSE
  /\ idx' = 0
  /\ sendResults' = <<>>
  /\ logCalls' = <<>>
  /\ engineOutcome' = NoResult
  /\ xacks' = 0
  /\ pc' = "w_parse"
  /\ UNCHANGED <<now, envVars, healthCheckEnabled>>

\* _processSingleMessageWork, up to the call of the engine.
Worker_Parse ==
  /\ UNCHANGED <<consumerVars, checkerVars>>
  /\ pc = "w_parse"
  /\ LET p == parseMessage(raw)
     IN /\ parsedOk' = p.ok
        /\ msg' = p.m
        /\ IF p.ok
           THEN /\ pc' = "e_start"
                /\ xacks' = xacks
           ELSE /\ pc' = "done"
                /\ xacks' = ackMessage(xacks)
  /\ UNCHANGED <<now, msgCount, raw, cacheEntry, envVars, healthCheckEnabled, gateHealthySeen,
                 resolverVars, engineVars>>

\* _processSingleMessageWork, after the engine returned or threw.
Worker_Finish ==
  /\ UNCHANGED <<consumerVars, checkerVars>>
  /\ pc = "w_finish"
  /\ xacks' = IF WorkerShouldAck(engineOutcome) THEN ackMessage(xacks) ELSE xacks
  /\ pc' = "done"
  /\ UNCHANGED <<now, msgCount, msgVars, envVars, healthCheckEnabled, gateHealthySeen,
                 resolverVars, engineVars>>

(* ---------------- NotificationEngine.processNotificationEvent ---------------- *)
Returned == [kind |-> "returned", cls |-> "", attemptsMade |-> 0]

Engine_Start ==
  /\ UNCHANGED <<consumerVars, checkerVars>>
  /\ pc = "e_start"
  /\ engineCalls' = engineCalls + 1
  /\ IF ~ValidStoreCode(msg.storeCode)
     THEN /\ logCalls' = Append(logCalls,
                 logAttempt(LogEntry("", CONFIG_ISSUE_CHANNEL_MARKER, "failed", 0, 0)))
          /\ engineOutcome' = Returned
          /\ pc' = "w_finish"
     ELSE /\ pc' = "r_start"
          /\ UNCHANGED <<logCalls, engineOutcome>>
  /\ UNCHANGED <<now, msgCount, msgVars, envVars, healthCheckEnabled, gateHealthySeen,
                 resolverVars, configLoads, configs, configStoreFailed, idx, sendResults,
                 xacks>>

\* The catch block around getOrderInfo: one failed record, then throw.
Engine_Catch ==
  /\ UNCHANGED <<consumerVars, checkerVars>>
  /\ pc = "e_resolved"
  /\ EngineAfterResolve(rres) = "catch"
  /\ logCalls' = Append(logCalls,
         logAttempt(LogEntry(msg.storeCode, CONFIG_ISSUE_CHANNEL_MARKER, "failed",
                             EngineCatchAttempts(rres), 0)))
  /\ engineOutcome' = EngineRethrown(rres)
  /\ pc' = "w_finish"
  /\ UNCHANGED <<now, msgCount, msgVars, envVars, healthCheckEnabled, gateHealthySeen,
                 resolverVars, engineCalls, configLoads, configs, configStoreFailed, idx,
                 sendResults, xacks>>

\* ConfigService.getStoreChannelConfigs (a store failure returns []), then the empty check.
Engine_LoadConfigs ==
  /\ UNCHANGED <<consumerVars, checkerVars>>
  /\ pc = "e_resolved"
  /\ EngineAfterResolve(rres) = "configs"
  /\ configLoads' = configLoads + 1
  /\ \E stored \in ConfigLists, entry \in ConfigCacheEntries, dbOk \in BOOLEAN :
       LET cs == getStoreChannelConfigs(RedisGet(redisUp, entry), dbOk, stored)
       IN
       /\ configs' = cs
       /\ configStoreFailed' = ConfigStoreFails(RedisGet(redisUp, entry), dbOk)
       /\ IF NoChannelConfigs(cs)
          THEN /\ logCalls' = Append(logCalls,
                      logAttempt(LogEntry(msg.storeCode, CONFIG_ISSUE_CHANNEL_MARKER,
                                          "skipped", 0, 0)))
               /\ engineOutcome' = Returned
               /\ pc' = "w_finish"
               /\ UNCHANGED <<idx, sendResults>>
          ELSE IF Len(cs) = 0          \* a for-of over no element runs no iteration
          THEN /\ engineOutcome' = Returned
               /\ pc' = "w_finish"
               /\ UNCHANGED <<idx, sendResults, logCalls>>
          ELSE /\ idx' = 1
               /\ sendResults' = [i \in 1..Len(cs) |-> "none"]
               /\ pc' = "e_loop"
               /\ UNCHANGED <<logCalls, engineOutcome>>
  /\ UNCHANGED <<now, msgCount, msgVars, envVars, healthCheckEnabled, gateHealthySeen,
                 resolverVars, engineCalls, xacks>>

\* Leaving one iteration of the for-loop over channelConfigs.
LoopAdvance ==
  IF idx = Len(configs)
  THEN /\ engineOutcome' = Returned
       /\ pc' = "w_finish"
       /\ idx' = idx
  ELSE /\ idx' = idx + 1
       /\ pc' = "e_loop"
       /\ UNCHANGED engineOutcome

\* One iteration of the for-loop over channelConfigs.
Engine_Channel ==
  /\ UNCHANGED <<consumerVars, checkerVars>>
  /\ pc = "e_loop"
  /\ LET c == configs[idx]
     IN IF ~c.enabled
        THEN /\ LoopAdvance
             /\ UNCHANGED <<logCalls, sendResults>>
        ELSE IF ~getNotificationStrategy(c.channel_type)
        THEN /\ logCalls' = Append(logCalls,
                    logAttempt(LogEntry(msg.storeCode, c.channel_type, "skipped", 0, idx)))
             /\ LoopAdvance
             /\ UNCHANGED sendResults
        ELSE \E r \in SendOutcomes :
               /\ sendResults' = [sendResults EXCEPT ![idx] = r]
               /\ LET d == SendDisposition(r)
                  IN IF d = "continue"
                     THEN /\ logCalls' = Append(logCalls,
                                 logAttempt(LogEntry(msg.storeCode, c.channel_type,
                                                     SendStatus(r), 0, idx)))
                          /\ LoopAdvance
                     ELSE IF d = "abort"
                     THEN /\ logCalls' = Append(logCalls,
                                 logAttempt(LogEntry(msg.storeCode, c.channel_type,
                                                     "failed", 0, idx)))
                          /\ engineOutcome' = Returned
                          /\ pc' = "w_finish"
                          /\ idx' = idx
                     ELSE /\ engineOutcome' = [kind |-> "throw", cls |-> "Error",
                                               attemptsMade |-> 0]
                          /\ pc' = "w_finish"
                          /\ UNCHANGED <<logCalls, idx>>
  /\ UNCHANGED <<now, msgCount, msgVars, envVars, healthCheckEnabled, gateHealthySeen,
                 resolverVars, engineCalls, configLoads, configs, configStoreFailed, xacks>>

(* ---------------- OrderService.getOrderInfo ---------------- *)
\* Step 1: initial staleness check.
GetOrderInfo_Staleness ==
  /\ UNCHANGED <<consumerVars, checkerVars>>
  /\ pc = "r_start"
  /\ calledAt' = now
  /\ attemptsMade' = 0
  /\ gateHealthySeen' = isOrderServiceHealthy
  /\ IF NotificationExpired(msg.timestamp, now)
     THEN /\ rres' = OSCritical(0)
          /\ pc' = "e_resolved"
     ELSE /\ pc' = "r_cache"
          /\ UNCHANGED rres
  /\ UNCHANGED <<now, msgCount, msgVars, envVars, healthCheckEnabled, cacheReads, httpCalls,
                 apiOutcomes, fetchCalls, engineVars, xacks>>

\* Step 2: shared cache lookup.
GetOrderInfo_Cache ==
  /\ UNCHANGED <<consumerVars, checkerVars>>
  /\ pc = "r_cache"
  /\ cacheReads' = cacheReads + 1
  /\ IF CacheHit(redisUp, cacheEntry)
     THEN /\ rres' = Resolved
          /\ pc' = "e_resolved"
     ELSE /\ pc' = "r_health"
          /\ UNCHANGED rres
  /\ UNCHANGED <<now, msgCount, msgVars, envVars, healthCheckEnabled, gateHealthySeen, calledAt,
                 httpCalls, apiOutcomes, fetchCalls, attemptsMade, engineVars, xacks>>

\* Step 3: health gate; then the for-loop starts with attemptsMade = 1.
GetOrderInfo_Health ==
  /\ UNCHANGED <<consumerVars, checkerVars>>
  /\ pc = "r_health"
  /\ IF HealthGateBlocks(healthCheckEnabled, isOrderServiceHealthy)
     THEN /\ rres' = OSCritical(attemptsMade)
          /\ pc' = "e_resolved"
          /\ UNCHANGED attemptsMade
     ELSE /\ attemptsMade' = 1
          /\ pc' = "r_attempt"
          /\ UNCHANGED rres
  /\ UNCHANGED <<now, msgCount, msgVars, envVars, healthCheckEnabled, gateHealthySeen, calledAt,
                 cacheReads, httpCalls, apiOutcomes, fetchCalls, engineVars, xacks>>

\* How one quick attempt ends, given what _fetchOrderInfoFromApiOnce did.
AttemptEnds(fetched) ==
  LET next == QuickAttemptNext(fetched, attemptsMade)
  IN IF next = "return"
     THEN /\ rres' = Resolved
          /\ pc' = "e_resolved"
     ELSE IF next = "throw"
     THEN /\ rres' = OSCritical(attemptsMade)
          /\ pc' = "e_resolved"
     ELSE /\ pc' = "r_delay"
          /\ UNCHANGED rres

\* Step 4: loop condition, staleness re-check and one API attempt.
GetOrderInfo_Attempt ==
  /\ UNCHANGED <<consumerVars, checkerVars>>
  /\ pc = "r_attempt"
  /\ IF attemptsMade > quickRetryAttempts
     THEN /\ rres' = OSCritical(attemptsMade)
          /\ pc' = "e_resolved"
          /\ UNCHANGED <<now, httpCalls, apiOutcomes, fetchCalls>>
     ELSE IF NotificationExpired(msg.timestamp, now)
     THEN /\ rres' = OSCritical(attemptsMade - 1)
          /\ pc' = "e_resolved"
          /\ UNCHANGED <<now, httpCalls, apiOutcomes, fetchCalls>>
     ELSE /\ fetchCalls' = fetchCalls + 1
          /\ IF ~Truthy(EffectiveToken(msg.token))
             THEN /\ AttemptEnds("throw")
                  /\ UNCHANGED <<now, httpCalls, apiOutcomes>>
             ELSE \E o \in ApiOutcomes :
                    /\ httpCalls' = httpCalls + 1
                    /\ apiOutcomes' = Append(apiOutcomes, o)
                    /\ now' = IF o = "timeout" THEN now + DEFAULT_HTTP_TIMEOUT_MS ELSE now
                    /\ AttemptEnds(FetchResult(o))
  /\ UNCHANGED <<msgCount, msgVars, envVars, healthCheckEnabled, gateHealthySeen, calledAt,
                 cacheReads, attemptsMade, engineVars, xacks>>

\* The fixed delay before the next quick attempt, then attemptsMade++.
GetOrderInfo_Delay ==
  /\ UNCHANGED <<consumerVars, checkerVars>>
  /\ pc = "r_delay"
  /\ now' = IF attemptsMade < quickRetryAttempts
            THEN now + ORDER_SERVICE_QUICK_RETRY_DELAY_MS ELSE now
  /\ attemptsMade' = attemptsMade + 1
  /\ pc' = "r_attempt"
  /\ UNCHANGED <<msgCount, msgVars, envVars, healthCheckEnabled, gateHealthySeen, calledAt,
                 cacheReads, httpCalls, apiOutcomes, fetchCalls, rres, engineVars, xacks>>

(* ---------------- OrderEventConsumer: limiter, pollMessages, start, stop ---------------- *)
Min(a, b) == IF a < b THEN a ELSE b
Max(a, b) == IF a > b THEN a ELSE b

LoopPcs == {"none", "health", "sleep_unhealthy", "sleep_full", "read", "error_delay", "exited"}
Sleeping(l) == loopPc[l] \in {"sleep_unhealthy", "sleep_full"}
FreeSlots == {l \in Loops : loopPc[l] \in {"none", "exited"}}
LiveLoops == Loops \ FreeSlots

currentActiveTasks == activeCount + pendingCount

\* p-limit: a submitted task runs at once while fewer than `concurrency` tasks run, and
\* waits in the queue otherwise.
LimitActive(a, p, k) == Max(a, Min(a + p + k, STREAM_MAX_CONCURRENT_TASKS))
LimitPending(a, p, k) == a + p + k - LimitActive(a, p, k)

ConsumerPausesMutant(healthy) == FALSE
\* `if (!isOrderServiceHealthy)` of pollMessages step 1.
ConsumerPauses(healthy) == ~healthy

\* Math.max(1, Math.min(availableSlots, STREAM_CONSUMER_BATCH_SIZE))
CountToFetchOf(cur) ==
  Max(1, Min(STREAM_MAX_CONCURRENT_TASKS - cur, STREAM_CONSUMER_BATCH_SIZE))

FromCapacityAlwaysFull(cur) == [pc |-> "sleep_full", count |-> 0]
FromCapacityWaitsForWorkers(cur) ==
  IF cur > 0
  THEN [pc |-> "sleep_full", count |-> 0]
  ELSE [pc |-> "read", count |-> CountToFetchOf(cur)]
\* pollMessages from step 2 to the next await: the saturation backoff or the XREADGROUP.
FromCapacity(cur) ==
  IF cur >= STREAM_MAX_CONCURRENT_TASKS
  THEN [pc |-> "sleep_full", count |-> 0]
  ELSE [pc |-> "read", count |-> CountToFetchOf(cur)]

\* pollMessages from `while (this.isRunning)` to the next await.
FromTop(running, cur) ==
  IF ~running THEN [pc |-> "exited", count |-> 0]
  ELSE IF healthCheckEnabled THEN [pc |-> "health", count |-> 0]
  ELSE FromCapacity(cur)

\* What the catch block of the loop does with a failed XREADGROUP.
FromCatchEndsLoop(running) == [pc |-> "exited", count |-> 0]
\* The catch of an iteration: `if (!this.isRunning) break;`, then the error retry delay.
FromCatch(running) ==
  IF ~running THEN [pc |-> "exited", count |-> 0] ELSE [pc |-> "error_delay", count |-> 0]

\* Coroutine l suspends at s; ptid is pollTimeoutId as the step has left it so far.
Suspend(l, s, ptid) ==
  /\ loopPc' = [loopPc EXCEPT ![l] = s.pc]
  /\ countToFetch' = [countToFetch EXCEPT ![l] = s.count]
  /\ timerCleared' = [timerCleared EXCEPT ![l] = FALSE]
  /\ pollTimeoutId' = IF s.pc \in {"sleep_unhealthy", "sleep_full"} THEN l ELSE ptid

\* What `redis.xgroup('CREATE', ...)` answers: OK, or an error whose message holds
\* BUSYGROUP, another message, or no message at all.
XGroupCreateResults == {"OK", "BUSYGROUP", "other_error", "error_without_message"}

ensureConsumerGroupRethrowsBusy(res) == IF res = "OK" THEN "resolved" ELSE "rejected"
\* ensureConsumerGroup: `if (error.message && error.message.includes('BUSYGROUP'))` the
\* error is logged and dropped, otherwise rethrown.
ensureConsumerGroup(res) ==
  IF res \in {"OK", "BUSYGROUP"} THEN "resolved" ELSE "rejected"

\* The group is created by an earlier run of the service or by another instance of it.
Group_CreatedElsewhere ==
  /\ ~groupExists
  /\ groupExists' = TRUE
  /\ UNCHANGED <<isRunning, pollTimeoutId, activeCount, pendingCount, starting, loopPc,
                 countToFetch, timerCleared, iterGate, stopPc, waited, returnedEarly,
                 leftAtReturn, stopRequested, ledgerVars, pipelineVars, checkerVars>>

\* start() up to `await this.ensureConsumerGroup()`.
Start_Call ==
  /\ starting + Cardinality(LiveLoops) < MaxLoops
  /\ stopRequested' = FALSE
  /\ starting' = IF isRunning THEN starting ELSE starting + 1
  /\ UNCHANGED <<isRunning, pollTimeoutId, activeCount, pendingCount, loopPc, countToFetch,
                 timerCleared, iterGate, stopPc, waited, returnedEarly, leftAtReturn,
                 streamVars,
                 pipelineVars, checkerVars>>

\* ensureConsumerGroup answers: on success isRunning = true and pollMessages() runs to its
\* first await; on failure start() rethrows.  XGROUP CREATE answers OK when the group was
\* absent and BUSYGROUP when it exists; it can fail for any other reason at any time.
Start_EnsuredOn(res) ==
  /\ starting > 0
  /\ res = "OK" => ~groupExists
  /\ res = "BUSYGROUP" => groupExists
  /\ starting' = starting - 1
  /\ groupExists' = (groupExists \/ res = "OK")
  /\ IF ensureConsumerGroup(res) = "resolved"
     THEN LET l == CHOOSE x \in FreeSlots : \A y \in FreeSlots : x <= y
          IN /\ isRunning' = TRUE
             /\ stopRequested' = FALSE
             /\ iterGate' = [iterGate EXCEPT ![l] = "none"]
             /\ Suspend(l, FromTop(TRUE, currentActiveTasks), pollTimeoutId)
     ELSE UNCHANGED <<isRunning, loopPc, countToFetch, timerCleared, pollTimeoutId,
                      iterGate, stopRequested>>
  /\ UNCHANGED <<activeCount, pendingCount, stopPc, waited, returnedEarly, leftAtReturn,
                 ledgerVars, pipelineVars, checkerVars>>

Start_Ensured == \E res \in XGroupCreateResults : Start_EnsuredOn(res)

\* `await OrderServiceHealthChecker.isOrderServiceHealthy()` answers; the flag, the local
\* status and Redis are whatever they are at that instant.
Loop_HealthReturns(l) ==
  /\ loopPc[l] = "health"
  /\ \E up \in BOOLEAN, flag \in {"none", "0", "1"}, cur \in BOOLEAN :
       LET healthy == HealthyFrom(healthCheckEnabled, up, flag, cur)
       IN /\ iterGate' = [iterGate EXCEPT ![l] =
                           IF healthy THEN "healthy" ELSE "unhealthy"]
          /\ IF ConsumerPauses(healthy)
             THEN Suspend(l, [pc |-> "sleep_unhealthy", count |-> 0], pollTimeoutId)
             ELSE Suspend(l, FromCapacity(currentActiveTasks), pollTimeoutId)
  /\ UNCHANGED <<isRunning, activeCount, pendingCount, starting, stopPc, waited,
                 returnedEarly, leftAtReturn, stopRequested, streamVars,
                 pipelineVars, checkerVars>>

\* The timer of a backoff sleep fires: pollTimeoutId = null, isRunning check, next iteration.
Loop_TimerFires(l) ==
  /\ Sleeping(l)
  /\ ~timerCleared[l]
  /\ iterGate' = [iterGate EXCEPT ![l] =
                     IF isRunning /\ iterGate[l] = "unhealthy" THEN "recheck" ELSE "none"]
  /\ Suspend(l, FromTop(isRunning, currentActiveTasks), 0)
  /\ UNCHANGED <<isRunning, activeCount, pendingCount, starting, stopPc, waited,
                 returnedEarly, leftAtReturn, stopRequested, streamVars,
                 pipelineVars, checkerVars>>

\* XREADGROUP answers with k entries (k = -1: the command failed), then the dispatch loop.
Loop_ReadReturnsOn(l, k) ==
  /\ loopPc[l] = "read"
  /\ iterGate' = [iterGate EXCEPT ![l] = "none"]
  /\ IF k = -1
     THEN /\ Suspend(l, FromCatch(isRunning), pollTimeoutId)
          /\ UNCHANGED <<activeCount, pendingCount>>
     ELSE IF ~isRunning \/ k = 0
     THEN /\ Suspend(l, FromTop(isRunning, currentActiveTasks), pollTimeoutId)
          /\ UNCHANGED <<activeCount, pendingCount>>
     ELSE /\ activeCount' = LimitActive(activeCount, pendingCount, k)
          /\ pendingCount' = LimitPending(activeCount, pendingCount, k)
          /\ Suspend(l, FromTop(isRunning, currentActiveTasks + k), pollTimeoutId)
  /\ UNCHANGED <<isRunning, starting, stopPc, waited, returnedEarly, leftAtReturn,
                 stopRequested, groupExists, pipelineVars, checkerVars>>

\* The same without following the entries one by one.
Loop_ReadReturns(l) ==
  \E k \in -1..countToFetch[l] : Loop_ReadReturnsOn(l, k) /\ UNCHANGED ledgerVars

\* The delay after a failed iteration ends.
Loop_ErrorDelayEnds(l) ==
  /\ loopPc[l] = "error_delay"
  /\ iterGate' = [iterGate EXCEPT ![l] = "none"]
  /\ Suspend(l, FromTop(isRunning, currentActiveTasks), pollTimeoutId)
  /\ UNCHANGED <<isRunning, activeCount, pendingCount, starting, stopPc, waited,
                 returnedEarly, leftAtReturn, stopRequested, streamVars,
                 pipelineVars, checkerVars>>

\* A worker task settles; the limiter starts the next queued task.
LimiterTaskSettles ==
  /\ activeCount > 0
  /\ IF pendingCount > 0
     THEN /\ pendingCount' = pendingCount - 1
          /\ UNCHANGED activeCount
     ELSE /\ activeCount' = activeCount - 1
          /\ UNCHANGED pendingCount
  /\ UNCHANGED <<isRunning, pollTimeoutId, starting, loopPc, countToFetch, timerCleared,
                 iterGate, stopPc, waited, returnedEarly, leftAtReturn, stopRequested,
                 groupExists, pipelineVars, checkerVars>>

\* The same without following the entries one by one.
WorkerCompletes == LimiterTaskSettles /\ UNCHANGED ledgerVars

StopKeepsWaitingMutant(tasks, w) == FALSE
\* `while ((activeCount > 0 || pendingCount > 0) && waited < gracefulShutdownTimeout)`
StopKeepsWaiting(tasks, w) == tasks > 0 /\ w < gracefulShutdownTimeout

\* stop() up to its first await (or to its return).
Stop_Begins ==
  /\ stopPc # "waiting"
  /\ stopRequested' = TRUE
  /\ isRunning' = FALSE
  /\ waited' = 0
  /\ IF ~isRunning /\ activeCount = 0 /\ pendingCount = 0
     THEN /\ stopPc' = "returned"
          /\ returnedEarly' = TRUE
          /\ leftAtReturn' = 0
          /\ UNCHANGED <<pollTimeoutId, timerCleared>>
     ELSE /\ pollTimeoutId' = 0
          /\ timerCleared' = IF pollTimeoutId # 0
                             THEN [timerCleared EXCEPT ![pollTimeoutId] = TRUE]
                             ELSE timerCleared
          /\ IF StopKeepsWaiting(currentActiveTasks, 0)
             THEN /\ stopPc' = "waiting"
                  /\ UNCHANGED <<returnedEarly, leftAtReturn>>
             ELSE /\ stopPc' = "returned"
                  /\ returnedEarly' = (0 < gracefulShutdownTimeout)
                  /\ leftAtReturn' = currentActiveTasks
  /\ UNCHANGED <<activeCount, pendingCount, starting, loopPc, countToFetch, iterGate,
                 groupExists,
                 pipelineVars, checkerVars>>

\* The same without following the entries one by one.
Stop_Call == Stop_Begins /\ UNCHANGED ledgerVars

\* One 500 ms wait of stop() ends: waited += pollInterval, then the while condition.
Stop_Wait ==
  /\ stopPc = "waiting"
  /\ LET w == waited + pollInterval
     IN IF StopKeepsWaiting(currentActiveTasks, w)
        THEN /\ waited' = w
             /\ UNCHANGED <<stopPc, returnedEarly, leftAtReturn>>
        ELSE /\ waited' = 0
             /\ stopPc' = "returned"
             /\ returnedEarly' = (w < gracefulShutdownTimeout)
             /\ leftAtReturn' = currentActiveTasks
  /\ UNCHANGED <<isRunning, pollTimeoutId, activeCount, pendingCount, starting, loopPc,
                 countToFetch, timerCleared, iterGate, stopRequested, streamVars,
                 pipelineVars, checkerVars>>

ConsumerNext ==
  \/ Start_Call
  \/ Start_Ensured
  \/ \E l \in Loops : Loop_HealthReturns(l)
  \/ \E l \in Loops : Loop_TimerFires(l)
  \/ \E l \in Loops : Loop_ReadReturns(l)
  \/ \E l \in Loops : Loop_ErrorDelayEnds(l)
  \/ WorkerCompletes
  \/ Stop_Call
  \/ Stop_Wait
  \/ Group_CreatedElsewhere

ConsumerSpec == Init /\ [][ConsumerNext]_vars

ConsumerTypeOK ==
  /\ isRunning \in BOOLEAN
  /\ pollTimeoutId \in 0..MaxLoops
  /\ loopPc \in [Loops -> LoopPcs]
  /\ starting + Cardinality(LiveLoops) <= MaxLoops
  /\ activeCount \in 0..STREAM_MAX_CONCURRENT_TASKS
  /\ (pendingCount > 0 => activeCount = STREAM_MAX_CONCURRENT_TASKS)
  /\ (pollTimeoutId # 0 => Sleeping(pollTimeoutId))
  /\ stopPc \in {"idle", "waiting", "returned"}
  /\ groupExists \in BOOLEAN

\* What the Node.js scheduler guarantees: an armed timer fires, a Redis command in flight
\* is answered or fails (XREADGROUP blocks for at most its BLOCK timeout).
ConsumerFairness ==
  /\ \A l \in Loops : WF_vars(Loop_HealthReturns(l))
  /\ \A l \in Loops : WF_vars(Loop_TimerFires(l))
  /\ \A l \in Loops : WF_vars(Loop_ReadReturns(l))
  /\ \A l \in Loops : WF_vars(Loop_ErrorDelayEnds(l))
  /\ WF_vars(Start_Ensured)
  /\ WF_vars(Stop_Wait)

ConsumerFairSpec == ConsumerSpec /\ ConsumerFairness

(* ---------------- the consumer, entry by entry ---------------- *)
XREADGROUPCursorStays(last, pending, k) == [ids |-> (last + 1)..(last + k), last |-> last]
\* XREADGROUP GROUP ... COUNT k ... STREAMS key '>': the k entries after the group's
\* last-delivered-id, which moves past them.  (pending: the group's pending entries, which
\* the '>' cursor does not look at.)
XREADGROUP(last, pending, k) == [ids |-> (last + 1)..(last + k), last |-> last + k]

\* What processNotificationEvent can do as the worker sees it: return, throw the
\* CriticalOrderInfoError of types/index.ts, or throw anything else.
WorkerEngineOutcomes ==
  {Returned,
   [kind |-> "throw", cls |-> "types.CriticalOrderInfoError", attemptsMade |-> 0],
   [kind |-> "throw", cls |-> "Error", attemptsMade |-> 0]}

ackMessageRethrows(xackOk) == IF xackOk THEN "resolved" ELSE "rejected"
\* ackMessage: a failed XACK is caught and logged, the promise resolves.
ackMessageSettles(xackOk) == "resolved"

\* XACK commands one run of _processSingleMessageWork issues.  A rejection of the
\* ackMessage call in the try block would land in the catch block, which acknowledges
\* whatever is not a CriticalOrderInfoError.
WorkerXacks(fieldsOk, o, xackOk) ==
  IF ~fieldsOk THEN 1
  ELSE IF ~WorkerShouldAck(o) THEN 0
  ELSE IF o.kind = "returned" /\ ackMessageSettles(xackOk) = "rejected" THEN 2
  ELSE 1

\* The r first entries of ids, in id order.
FirstOf(ids, r) == {e \in ids : Cardinality({x \in ids : x < e}) < r}

\* XREADGROUP answers coroutine l with the entries after the cursor; `for (const [messageId,
\* fields] of actualMessages)` hands each to this.limit(...), which runs it or queues it.
Stream_ReadReturns(l) ==
  \E k \in -1..Min(countToFetch[l], MaxEntries - lastDelivered) :
    /\ Loop_ReadReturnsOn(l, k)
    /\ stoppedInRead' = [stoppedInRead EXCEPT ![l] = FALSE]
    /\ IF k <= 0
       THEN UNCHANGED <<lastDelivered, pel, submitted, task, engineRuns, xackCalls>>
       ELSE LET r == XREADGROUP(lastDelivered, pel, k)
                started == FirstOf(r.ids, LimitActive(activeCount, pendingCount, k)
                                          - activeCount)
            IN /\ lastDelivered' = r.last
               /\ pel' = pel \cup r.ids
               /\ IF isRunning
                  THEN /\ submitted' = [e \in Entries |->
                                          IF e \in r.ids THEN submitted[e] + 1
                                          ELSE submitted[e]]
                       /\ task' = [e \in Entries |->
                                     IF e \in started THEN "running"
                                     ELSE IF e \in r.ids THEN "queued"
                                     ELSE task[e]]
                  ELSE UNCHANGED <<submitted, task>>
               /\ UNCHANGED <<engineRuns, xackCalls>>

\* _processSingleMessageWork of entry e runs to its end: parse, engine call, XACK or not
\* (ackMessage catches a failed XACK); the limiter then starts the oldest queued task.
Stream_WorkerSettles(e) ==
  /\ task[e] = "running"
  /\ LimiterTaskSettles
  /\ LET queued == {x \in Entries : task[x] = "queued"}
     IN task' = [x \in Entries |->
                  IF x = e THEN "settled"
                  ELSE IF x \in FirstOf(queued, 1) THEN "running"
                  ELSE task[x]]
  /\ \E fieldsOk \in BOOLEAN, o \in WorkerEngineOutcomes, xackOk \in BOOLEAN :
       LET n == WorkerXacks(fieldsOk, o, xackOk)
       IN /\ engineRuns' = [engineRuns EXCEPT ![e] = IF fieldsOk THEN @ + 1 ELSE @]
          /\ xackCalls' = [xackCalls EXCEPT ![e] = @ + n]
          /\ pel' = IF n > 0 /\ xackOk THEN pel \ {e} ELSE pel
  /\ UNCHANGED <<lastDelivered, submitted, stoppedInRead>>

\* stop() is called: the XREADGROUP commands in flight stay in flight.
Stream_StopCall ==
  /\ Stop_Begins
  /\ stoppedInRead' = [l \in Loops |-> stoppedInRead[l] \/ loopPc[l] = "read"]
  /\ UNCHANGED <<lastDelivered, pel, submitted, task, engineRuns, xackCalls>>

\* One 500 ms wait of stop() ends, the first MaxStopWaits of them being followed.
Stream_StopWait ==
  /\ waited < MaxStopWaits * pollInterval
  /\ Stop_Wait

StreamNext ==
  \/ Start_Call
  \/ Start_Ensured
  \/ \E l \in Loops : Loop_HealthReturns(l)
  \/ \E l \in Loops : Loop_TimerFires(l)
  \/ \E l \in Loops : Stream_ReadReturns(l)
  \/ \E l \in Loops : Loop_ErrorDelayEnds(l)
  \/ \E e \in Entries : Stream_WorkerSettles(e)
  \/ Stream_StopCall
  \/ Stream_StopWait
  \/ Group_CreatedElsewhere

StreamSpec == Init /\ [][StreamNext]_vars

StreamTypeOK ==
  /\ stoppedInRead \in [Loops -> BOOLEAN]
  /\ \A l \in Loops : stoppedInRead[l] => loopPc[l] = "read"
  /\ ConsumerTypeOK
  /\ lastDelivered \in 0..MaxEntries
  /\ pel \subseteq 1..lastDelivered
  /\ activeCount = Cardinality({e \in Entries : task[e] = "running"})
  /\ pendingCount = Cardinality({e \in Entries : task[e] = "queued"})
  /\ \A e \in Entries : task[e] # "none" => e <= lastDelivered

\* The consumer while it is running: start() calls, the polling coroutines and the workers,
\* and no stop() call.
RunningNext ==
  \/ Start_Call
  \/ Start_Ensured
  \/ \E l \in Loops : Loop_HealthReturns(l)
  \/ \E l \in Loops : Loop_TimerFires(l)
  \/ \E l \in Loops : Loop_ReadReturns(l)
  \/ \E l \in Loops : Loop_ErrorDelayEnds(l)
  \/ WorkerCompletes
  \/ Group_CreatedElsewhere

RunningFairness ==
  /\ \A l \in Loops : WF_vars(Loop_HealthReturns(l))
  /\ \A l \in Loops : WF_vars(Loop_TimerFires(l))
  /\ \A l \in Loops : WF_vars(Loop_ReadReturns(l))
  /\ \A l \in Loops : WF_vars(Loop_ErrorDelayEnds(l))
  /\ WF_vars(Start_Ensured)

RunningFairSpec == Init /\ [][RunningNext]_vars /\ RunningFairness

(* ---------------- specification ---------------- *)
Next ==
  \/ ReadMessage
  \/ Worker_Parse
  \/ Engine_Start
  \/ GetOrderInfo_Staleness
  \/ GetOrderInfo_Cache
  \/ GetOrderInfo_Health
  \/ GetOrderInfo_Attempt
  \/ GetOrderInfo_Delay
  \/ Engine_Catch
  \/ Engine_LoadConfigs
  \/ Engine_Channel
  \/ Worker_Finish
  \/ RunCheckCycle
  \/ HealthFlagExpires
  \/ RedisToggle
  \/ SharedFlagWritten

Spec == Init /\ [][Next]_vars

TypeOK ==
  /\ pc \in {"idle", "w_parse", "e_start", "r_start", "r_cache", "r_health", "r_attempt",
             "r_delay", "e_resolved", "e_loop", "w_finish", "done"}
  /\ msgCount \in 0..MaxMessages
  /\ xacks \in 0..1
  /\ httpCalls = Len(apiOutcomes)
  /\ Len(logCalls) <= MaxConfigs + 1

(* ---------------- vocabulary of the properties ---------------- *)
\* An error named CriticalOrderInfoError, whichever module defines its class.
IsCriticalOrderInfoError(e) ==
  e.kind = "throw" /\ e.cls \in {"types.CriticalOrderInfoError",
                                 "OrderService.CriticalOrderInfoError"}
ResolverEnded == rres.kind # "none"
EngineEnded == engineOutcome.kind # "none"
ColdCache == cacheEntry = "absent"
AllRetryable == \A i \in 1..Len(apiOutcomes) : apiOutcomes[i] \in RetryableOutcomes
OlderThanMaxAge(ts, t) == t - ts > ORDER_SERVICE_MAX_NOTIFICATION_AGE_MS
LogsOfConfig(i) == {k \in 1..Len(logCalls) : logCalls[k].cfg = i}
ExpectedStatus(c, r) ==
  IF c.channel_type \notin RegisteredChannels THEN "skipped"
  ELSE IF r = "ok" THEN "success" ELSE "failed"

(* ---------------- C1 ---------------- *)
\* C1: for every parsed message, no XACK is issued before the engine call has ended, and
\* when the worker has finished XACK was issued if and only if the engine call did not end
\* by throwing CriticalOrderInfoError.
AckLaw ==
  parsedOk =>
    /\ (pc # "done" => xacks = 0)
    /\ (pc = "done" => ((xacks = 1) <=> ~IsCriticalOrderInfoError(engineOutcome)))

AckLawWitness ==
  /\ pc = "done"
  /\ parsedOk
  /\ IsCriticalOrderInfoError(engineOutcome)
  /\ xacks = 0

(* ---------------- C2 ---------------- *)
\* C2: a call of processNotificationEvent that has ended either returned normally or threw
\* the CriticalOrderInfoError the consumer recognises; nothing else escapes.
EngineReturnsOrThrowsCritical ==
  /\ engineOutcome.kind \in {"none", "returned", "throw"}
  /\ (engineOutcome.kind = "throw" => engineOutcome.cls = "types.CriticalOrderInfoError")
  /\ (pc \in {"w_finish", "done"} /\ parsedOk => EngineEnded)

EngineReturnsOrThrowsCriticalWitness ==
  /\ engineOutcome.kind = "throw"
  /\ rres.cls = "OrderService.CriticalOrderInfoError"
  /\ rres.attemptsMade = quickRetryAttempts

(* ---------------- C3 ---------------- *)
\* C3 as stated: health checking disabled, cold cache and an API that only gives retryable
\* failures imply exactly ORDER_SERVICE_QUICK_RETRY_ATTEMPTS attempts and
\* attemptsMade = ORDER_SERVICE_QUICK_RETRY_ATTEMPTS.
QuickRetryExhaustedAsStated ==
  (ResolverEnded /\ ~healthCheckEnabled /\ ColdCache /\ AllRetryable)
    => /\ rres.kind = "throw"
       /\ fetchCalls = ORDER_SERVICE_QUICK_RETRY_ATTEMPTS
       /\ rres.attemptsMade = ORDER_SERVICE_QUICK_RETRY_ATTEMPTS

\* C3 amended: the same, for an event that is still within the maximum age when the call
\* ends; every attempt is an HTTP request when a credential is available.
QuickRetryExhausted ==
  (ResolverEnded /\ ~healthCheckEnabled /\ ColdCache /\ AllRetryable
     /\ ~OlderThanMaxAge(msg.timestamp, now))
    => /\ rres.kind = "throw"
       /\ fetchCalls = ORDER_SERVICE_QUICK_RETRY_ATTEMPTS
       /\ rres.attemptsMade = ORDER_SERVICE_QUICK_RETRY_ATTEMPTS
       /\ (Truthy(EffectiveToken(msg.token))
             => httpCalls = ORDER_SERVICE_QUICK_RETRY_ATTEMPTS)

QuickRetryExhaustedWitness ==
  /\ ResolverEnded
  /\ ~healthCheckEnabled
  /\ ColdCache
  /\ AllRetryable
  /\ ~OlderThanMaxAge(msg.timestamp, now)
  /\ httpCalls = ORDER_SERVICE_QUICK_RETRY_ATTEMPTS
  /\ rres.attemptsMade = ORDER_SERVICE_QUICK_RETRY_ATTEMPTS

(* ---------------- C4 ---------------- *)
\* C4: an API attempt answered 404 or another 4xx is the last attempt of the call: no retry
\* is scheduled after it, and the call fails with attemptsMade equal to that attempt's number.
DefinitiveFailureNotRetried ==
  \A i \in 1..Len(apiOutcomes) :
    apiOutcomes[i] \in DefinitiveOutcomes
      => /\ i = Len(apiOutcomes)
         /\ pc # "r_delay"
         /\ (ResolverEnded => (rres.kind = "throw" /\ rres.attemptsMade = i))

(* ---------------- C5 ---------------- *)
\* C5 as stated: a call made while health checking is enabled and the gate reports unhealthy
\* sends no HTTP request and fails with attemptsMade = 0.
UnhealthyFailsFastAsStated ==
  (ResolverEnded /\ healthCheckEnabled /\ ~gateHealthySeen)
    => /\ httpCalls = 0
       /\ rres.kind = "throw"
       /\ rres.attemptsMade = 0

\* C5 amended: such a call sends no HTTP request, and it fails with attemptsMade = 0 unless
\* the shared cache returned a valid entry for the order, which is then the result.
UnhealthyFailsFast ==
  (ResolverEnded /\ healthCheckEnabled /\ ~gateHealthySeen)
    => /\ httpCalls = 0
       /\ fetchCalls = 0
       /\ \/ rres.kind = "throw" /\ rres.attemptsMade = 0
          \/ rres.kind = "ok" /\ cacheEntry = "valid" /\ cacheReads = 1

UnhealthyFailsFastWitness ==
  /\ ResolverEnded
  /\ healthCheckEnabled
  /\ ~gateHealthySeen
  /\ cacheReads = 1
  /\ rres.kind = "throw"
  /\ rres.attemptsMade = 0
  /\ httpCalls = 0

(* ---------------- C6 ---------------- *)
\* C6: when the parsed timestamp is older than the maximum age at the time getOrderInfo is
\* entered, the call reads no cache, sends no HTTP request and fails with attemptsMade = 0.
StaleFailsBeforeCacheAndApi ==
  (parsedOk /\ calledAt # 0 /\ OlderThanMaxAge(msg.timestamp, calledAt))
    => /\ cacheReads = 0
       /\ httpCalls = 0
       /\ pc \notin {"r_cache", "r_health", "r_attempt", "r_delay"}
       /\ (ResolverEnded => (rres.kind = "throw" /\ rres.attemptsMade = 0))

(* ---------------- C7 ---------------- *)
\* C7: when the engine call has ended after iterating over the configurations, every
\* configuration has exactly one audit record, every configuration with a registered
\* strategy was sent to, and each record's status is decided by that configuration's own
\* strategy result alone, also when another configuration's strategy threw.
FanOutIsolation ==
  (EngineEnded /\ Len(configs) > 0)
    => \A i \in 1..Len(configs) :
         /\ Cardinality(LogsOfConfig(i)) = 1
         /\ (configs[i].channel_type \in RegisteredChannels => sendResults[i] # "none")
         /\ \A k \in LogsOfConfig(i) :
              /\ logCalls[k].status = ExpectedStatus(configs[i], sendResults[i])
              /\ logCalls[k].channel_type = configs[i].channel_type

FanOutIsolationWitness ==
  /\ EngineEnded
  /\ Len(configs) = 2
  /\ sendResults[1] = "throw"
  /\ sendResults[2] = "ok"
  /\ Len(logCalls) = 2
  /\ logCalls[1].status = "failed"
  /\ logCalls[2].status = "success"

(* ---------------- C8 ---------------- *)
\* C8: once order resolution has succeeded the engine call returns normally whatever the
\* strategies do, and the finished worker has acknowledged the message.
StrategyFailuresNeverEscalate ==
  (rres.kind = "ok")
    => /\ engineOutcome.kind \in {"none", "returned"}
       /\ (pc \in {"w_finish", "done"} => engineOutcome.kind = "returned")
       /\ (pc = "done" => xacks = 1)

StrategyFailuresNeverEscalateWitness ==
  /\ pc = "done"
  /\ rres.kind = "ok"
  /\ Len(configs) = 2
  /\ sendResults[1] = "throw"
  /\ sendResults[2] = "fail"
  /\ xacks = 1

(* ---------------- C9 ---------------- *)
\* C9: when order resolution failed and the engine call has ended, the engine made exactly
\* one logAttempt call, with status failed and passing the sink's required-fields check,
\* it threw, it loaded no channel configuration and invoked no strategy.
ResolutionFailureLoggedOnce ==
  (rres.kind = "throw")
    => /\ configLoads = 0
       /\ configs = <<>>
       /\ sendResults = <<>>
       /\ (~EngineEnded => logCalls = <<>>)
       /\ (EngineEnded => /\ engineOutcome.kind = "throw"
                          /\ Len(logCalls) = 1
                          /\ logCalls[1].status = "failed"
                          /\ logCalls[1].valid)
       /\ (pc \in {"w_finish", "done"} => EngineEnded)

ResolutionFailureLoggedOnceWitness ==
  /\ rres.kind = "throw"
  /\ engineOutcome.kind = "throw"
  /\ Len(logCalls) = 1
  /\ logCalls[1].status = "failed"

(* ---------------- C10 ---------------- *)
\* C10: the error that leaves the engine carries the attemptsMade of the error thrown by
\* getOrderInfo, and the failed audit record's retry_count is that attemptsMade.
CriticalPropagatedUnchanged ==
  (rres.kind = "throw" /\ engineOutcome.kind = "throw")
    => /\ engineOutcome.attemptsMade = rres.attemptsMade
       /\ \A k \in 1..Len(logCalls) : logCalls[k].retry_count = rres.attemptsMade

(* ---------------- C11 ---------------- *)
\* C11: when order resolution succeeded and the configuration lookup returned no enabled
\* configuration, the engine made exactly one logAttempt call, with status skipped, invoked
\* no strategy and returned normally, and the finished worker acknowledged the message.
NoConfigSkippedOnce ==
  (rres.kind = "ok" /\ configLoads = 1 /\ Len(configs) = 0)
    => /\ pc \in {"w_finish", "done"}
       /\ engineOutcome = Returned
       /\ sendResults = <<>>
       /\ Len(logCalls) = 1
       /\ logCalls[1].status = "skipped"
       /\ logCalls[1].channel_type = CONFIG_ISSUE_CHANNEL_MARKER
       /\ logCalls[1].valid
       /\ (pc = "done" => xacks = 1)

NoConfigSkippedOnceWitness ==
  /\ pc = "done"
  /\ rres.kind = "ok"
  /\ configLoads = 1
  /\ Len(configs) = 0
  /\ Len(logCalls) = 1
  /\ logCalls[1].status = "skipped"
  /\ xacks = 1

(* ---------------- C12 ---------------- *)
\* What the claim calls an unparseable entry: a required field missing, a timestamp that
\* is not a number, an odd-length field array, or an event outside NotificationEventType.
ClaimedUnparseable(r) ==
  \/ ~r.evenLen
  \/ r.orderId = ""
  \/ r.storeCode = ""
  \/ r.event = ""
  \/ r.tsKind = "absent"
  \/ r.tsKind \in {"nan", "blank"}
  \/ r.event \notin NotificationEventType

\* C12: once the worker has looked at an unparseable entry, the entry is acknowledged and
\* processNotificationEvent is never called for it.
UnparseableAckedNotProcessed ==
  (msgCount > 0 /\ pc # "w_parse" /\ ClaimedUnparseable(raw))
    => /\ engineCalls = 0
       /\ pc = "done"
       /\ xacks = 1

(* ---------------- C13 ---------------- *)
\* C13: the tasks running plus queued in the limiter never exceed
\* STREAM_MAX_CONCURRENT_TASKS.
ConcurrencyCeiling == activeCount + pendingCount <= STREAM_MAX_CONCURRENT_TASKS

(* ---------------- C14 ---------------- *)
\* C14: in an iteration in which the health gate answered unhealthy the coroutine has
\* issued no XREADGROUP and is in the unhealthy backoff, and the step in which the gate
\* answers unhealthy submits nothing to the limiter.
IngestionPause ==
  /\ [](\A l \in Loops :
          iterGate[l] = "unhealthy"
            => /\ healthCheckEnabled
               /\ loopPc[l] = "sleep_unhealthy"
               /\ countToFetch[l] = 0)
  /\ [][\A l \in Loops :
          (iterGate[l] # "unhealthy" /\ iterGate'[l] = "unhealthy")
            => (activeCount' = activeCount /\ pendingCount' = pendingCount)]_vars

IngestionPauseWitness ==
  \E l \in Loops :
    /\ isRunning
    /\ iterGate[l] = "unhealthy"
    /\ loopPc[l] = "sleep_unhealthy"
    /\ activeCount + pendingCount < STREAM_MAX_CONCURRENT_TASKS

(* ---------------- C15 ---------------- *)
\* C15: while stop() has been called and start() has neither been called nor set
\* isRunning since, no step issues an XREADGROUP and no step submits a message to the
\* limiter.
NoReadAfterStop ==
  [][(stopRequested /\ stopRequested')
       => /\ \A l \in Loops : loopPc'[l] = "read" => loopPc[l] = "read"
          /\ activeCount' + pendingCount' <= activeCount + pendingCount]_vars

(* ---------------- C16 ---------------- *)
\* C16: stop() waits fewer than gracefulShutdownTimeout / pollInterval times before its
\* last wait, every wait ends, a return before the grace period has elapsed finds the
\* limiter empty, and no step of stop() removes a task from the limiter.
StopTerminates ==
  /\ [](stopPc = "waiting"
          => /\ waited < gracefulShutdownTimeout
             /\ waited % pollInterval = 0
             /\ ENABLED Stop_Wait)
  /\ []((stopPc = "returned" /\ returnedEarly) => leftAtReturn = 0)
  /\ [][(stopPc' # stopPc \/ waited' # waited)
          => (activeCount' = activeCount /\ pendingCount' = pendingCount)]_vars
  /\ (stopPc = "waiting" ~> stopPc = "returned")

StopTerminatesWitness ==
  /\ stopPc = "waiting"
  /\ waited = gracefulShutdownTimeout - pollInterval
  /\ activeCount + pendingCount > 0

(* ---------------- C17 ---------------- *)
\* C17: once stop() has been called, every polling coroutine eventually ends (unless
\* start() intervenes).
LoopExitsAfterStop == stopRequested ~> (~stopRequested \/ LiveLoops = {})

(* ---------------- C18 ---------------- *)
\* C18: with health checking enabled and Redis answering, whenever the health status key
\* is absent isOrderServiceHealthy() returns false.
AbsentFlagUnhealthy ==
  (healthCheckEnabled /\ redisUp /\ healthFlag = "none") => ~isOrderServiceHealthy

(* ---------------- C19 ---------------- *)
\* C19: with health checking enabled the gate answers true for a readable '1', false for
\* a readable '0', and otherwise the result of the last completed probe, false when no
\* probe has completed; the resolver's health step fails fast exactly when that answer
\* is false.
GateExpected ==
  IF redisUp /\ healthFlag = "1" THEN TRUE
  ELSE IF redisUp /\ healthFlag = "0" THEN FALSE
  ELSE lastProbe = "healthy"

UpdateHealthStatus(isHealthy) ==
  /\ healthFlag' = IF redisUp THEN (IF isHealthy THEN "1" ELSE "0") ELSE healthFlag
  /\ currentHealthStatus' = isHealthy
  /\ lastProbe' = IF isHealthy THEN "healthy" ELSE "unhealthy"

checkerFrame == <<pc, now, msgCount, msgVars, redisUp, healthCheckEnabled, gateHealthySeen,
                  resolverVars, engineVars, xacks, consumerVars>>

\* Timers setInterval can still hand out.
FreeTimers == TimerIds \ liveTimers

\* start() up to its first await: disabled -> writes '1' and returns; a non-null intervalId
\* -> returns; otherwise runCheckCycle() begins its probe.
HC_Start ==
  /\ checkerStopped' = FALSE
  /\ IF ~healthCheckEnabled
     THEN /\ healthFlag' = IF redisUp THEN "1" ELSE healthFlag
          /\ UNCHANGED <<startPc, currentHealthStatus, lastProbe>>
     ELSE IF intervalId # 0
     THEN UNCHANGED <<startPc, healthFlag, currentHealthStatus, lastProbe>>
     ELSE /\ \E c \in StartCalls :
               /\ startPc[c] = "none"
               /\ Cardinality({d \in StartCalls : startPc[d] = "cycle"})
                    < Cardinality(FreeTimers)
               /\ startPc' = [startPc EXCEPT ![c] = "cycle"]
          /\ UNCHANGED <<healthFlag, currentHealthStatus, lastProbe>>
  /\ UNCHANGED <<intervalId, liveTimers, cyclesInFlight, checkerFrame>>

\* The initial runCheckCycle() of a start() call ends: the result is stored, then
\* `intervalId = setInterval(runCheckCycle, CHECK_INTERVAL)`.
HC_StartResumes(c) ==
  /\ startPc[c] = "cycle"
  /\ startPc' = [startPc EXCEPT ![c] = "none"]
  /\ \E isHealthy \in BOOLEAN : UpdateHealthStatus(isHealthy)
  /\ LET t == CHOOSE x \in FreeTimers : \A y \in FreeTimers : x <= y
     IN /\ intervalId' = t
        /\ liveTimers' = liveTimers \cup {t}
  /\ UNCHANGED <<cyclesInFlight, checkerStopped, checkerFrame>>

\* An interval timer that was not cleared fires: runCheckCycle() begins a probe.
HC_IntervalFires(t) ==
  /\ t \in liveTimers
  /\ cyclesInFlight < MaxCycles
  /\ cyclesInFlight' = cyclesInFlight + 1
  /\ UNCHANGED <<intervalId, liveTimers, startPc, checkerStopped, healthFlag,
                 currentHealthStatus, lastProbe, checkerFrame>>

\* A runCheckCycle() started by a timer ends: checkOrderStatus answered, the result is stored.
HC_CycleEnds ==
  /\ cyclesInFlight > 0
  /\ cyclesInFlight' = cyclesInFlight - 1
  /\ \E isHealthy \in BOOLEAN : UpdateHealthStatus(isHealthy)
  /\ UNCHANGED <<intervalId, liveTimers, startPc, checkerStopped, checkerFrame>>

\* stop(): clears the timer intervalId names, if any.
HC_Stop ==
  /\ checkerStopped' = TRUE
  /\ IF intervalId # 0
     THEN /\ liveTimers' = liveTimers \ {intervalId}
          /\ intervalId' = 0
     ELSE UNCHANGED <<intervalId, liveTimers>>
  /\ UNCHANGED <<startPc, cyclesInFlight, healthFlag, currentHealthStatus, lastProbe,
                 checkerFrame>>

\* Redis becomes unreachable or reachable again between two steps of the checker.
HC_RedisToggle ==
  /\ redisUp' = ~redisUp
  /\ UNCHANGED <<pc, now, msgCount, msgVars, healthCheckEnabled, healthFlag,
                 currentHealthStatus, lastProbe, gateHealthySeen, resolverVars, engineVars,
                 xacks, consumerVars, checkerVars>>

CheckerNext ==
  \/ HC_Start
  \/ \E c \in StartCalls : HC_StartResumes(c)
  \/ \E t \in TimerIds : HC_IntervalFires(t)
  \/ HC_CycleEnds
  \/ HC_Stop
  \/ HC_RedisToggle

CheckerSpec == Init /\ [][CheckerNext]_vars

CheckerTypeOK ==
  /\ intervalId \in {0} \cup TimerIds
  /\ liveTimers \subseteq TimerIds
  /\ startPc \in [StartCalls -> {"none", "cycle"}]
  /\ cyclesInFlight \in 0..MaxCycles
  /\ checkerStopped \in BOOLEAN

(* ---------------- the worker pipeline and the polling loop together ---------------- *)
\* The two parts share no variable: a worker is a count in the limiter for the polling
\* loop, and the loop draws what the gate reads freely. Every state of their interleaving
\* is therefore a pair of a pipeline state and a consumer state, each reachable on its
\* own, and the system is explored one part at a time from the common initial state.
SystemNext ==
  \/ (ConsumerInit /\ Next)
  \/ (PipelineInit /\ ConsumerNext)

SystemSpec == Init /\ [][SystemNext]_vars

(* ---------------- C20 ---------------- *)
\* C20: with health checking disabled the gate answers true whatever the health key holds,
\* the resolver's health step always goes on to the first attempt, and no polling
\* coroutine awaits the gate, records an unhealthy answer or sleeps the unhealthy backoff.
DisabledNeverGates ==
  /\ [](~healthCheckEnabled => isOrderServiceHealthy)
  /\ [][(~healthCheckEnabled /\ pc = "r_health" /\ pc' # "r_health")
          => (pc' = "r_attempt" /\ rres' = rres)]_vars
  /\ [](~healthCheckEnabled
          => \A l \in Loops : /\ loopPc[l] \notin {"health", "sleep_unhealthy"}
                              /\ iterGate[l] # "unhealthy")

DisabledNeverGatesWitness ==
  /\ ~healthCheckEnabled
  /\ redisUp
  /\ healthFlag = "0"
  /\ pc = "r_attempt"
  /\ attemptsMade = 1
  /\ fetchCalls = 0

(* ---------------- C21 ---------------- *)
\* C21: while stop() of the health checker has returned and start() has not been called
\* since, no step begins a probe cycle.
NoProbeAfterCheckerStop ==
  [][(checkerStopped /\ checkerStopped') => cyclesInFlight' <= cyclesInFlight]_vars

(* ---------------- C22 ---------------- *)
\* C22 as stated: every getOrderInfo call made while the cache holds a well-formed entry of
\* the requested store returns the order and sends no request to the order API.
WarmCacheIdempotenceAsStated ==
  (ResolverEnded /\ cacheEntry = "valid") => (rres = Resolved /\ httpCalls = 0)

\* C22 amended: a call whose event is not older than the maximum age when the call begins
\* goes on to the cache; a cache read that Redis answers with a well-formed entry of the
\* requested store ends the call with that entry, no API attempt and no HTTP request; and
\* no step of getOrderInfo changes the cache entry.
WarmCacheIdempotence ==
  /\ [][(pc = "r_start" /\ pc' # "r_start" /\ ~NotificationExpired(msg.timestamp, now))
          => pc' = "r_cache"]_vars
  /\ [][(pc = "r_cache" /\ pc' # "r_cache" /\ redisUp /\ cacheEntry = "valid")
          => /\ pc' = "e_resolved"
             /\ rres' = Resolved
             /\ fetchCalls' = 0
             /\ httpCalls' = 0]_vars
  /\ [][(pc \in {"r_start", "r_cache", "r_health", "r_attempt", "r_delay"})
          => cacheEntry' = cacheEntry]_vars

WarmCacheIdempotenceWitness ==
  /\ msgCount = MaxMessages
  /\ cacheEntry = "valid"
  /\ pc = "e_resolved"
  /\ rres = Resolved
  /\ cacheReads = 1
  /\ httpCalls = 0

(* ---------------- C23 ---------------- *)
\* C23: a getOrderInfo call that has ended has returned an order or thrown the resolver's
\* CriticalOrderInfoError, and the engine resumes only with an ended call.
ResolverReturnsOrCritical ==
  /\ ResolverEnded
       => \/ rres = Resolved
          \/ rres.kind = "throw" /\ rres.cls = "OrderService.CriticalOrderInfoError"
  /\ pc = "e_resolved" => ResolverEnded

\* A call without credential: every attempt fails before any request is sent.
ResolverReturnsOrCriticalWitness ==
  /\ pc = "e_resolved"
  /\ ~Truthy(EffectiveToken(msg.token))
  /\ rres.kind = "throw"
  /\ fetchCalls = quickRetryAttempts
  /\ httpCalls = 0

(* ---------------- C24 ---------------- *)
\* C24: when the engine has ended on a message whose storeCode is empty or white space, it
\* has returned, exactly one audit row was inserted, and the order was not resolved, no
\* configuration was loaded and no strategy was invoked.
InvalidStoreCodeAudited ==
  (pc = "w_finish" /\ parsedOk /\ ~ValidStoreCode(msg.storeCode))
    => /\ engineOutcome = Returned
       /\ Cardinality({k \in 1..Len(logCalls) : logCalls[k].valid}) = 1
       /\ cacheReads = 0
       /\ fetchCalls = 0
       /\ configLoads = 0
       /\ sendResults = <<>>

(* ---------------- C25 ---------------- *)
\* C25: when the engine call has ended after a successful resolution with k >= 1
\* configurations, it made exactly k logAttempt calls, the i-th for the i-th
\* configuration with its channel type and accepted by the sink's required-fields check,
\* with status skipped when no strategy is registered, success when send returned
\* success:true and failed when it returned success:false or threw; and the worker of
\* scenario A has acknowledged the message.
AuditRecordPerConfiguration ==
  /\ (EngineEnded /\ rres = Resolved /\ Len(configs) >= 1)
       => /\ Len(logCalls) = Len(configs)
          /\ \A i \in 1..Len(configs) :
               /\ logCalls[i].cfg = i
               /\ logCalls[i].valid
               /\ logCalls[i].channel_type = configs[i].channel_type
               /\ logCalls[i].status = "skipped"
                    <=> configs[i].channel_type \notin RegisteredChannels
               /\ logCalls[i].status = "success"
                    <=> (configs[i].channel_type \in RegisteredChannels /\ sendResults[i] = "ok")
               /\ logCalls[i].status = "failed"
                    <=> (configs[i].channel_type \in RegisteredChannels
                           /\ sendResults[i] \in {"fail", "throw"})
  /\ (pc = "done" /\ rres = Resolved /\ configs = <<ConfigOf("wecom_bot")>>
        /\ sendResults = <<"ok">>)
       => (xacks = 1 /\ Len(logCalls) = 1 /\ logCalls[1].status = "success")

\* Scenario A: cache empty, the API answers 200 with a valid body, one wecom_bot
\* configuration whose send succeeds.
AuditRecordPerConfigurationWitness ==
  /\ pc = "done"
  /\ cacheEntry = "absent"
  /\ apiOutcomes = <<"200ok">>
  /\ configs = <<ConfigOf("wecom_bot")>>
  /\ sendResults = <<"ok">>
  /\ Len(logCalls) = 1
  /\ logCalls[1].status = "success"
  /\ xacks = 1

(* ---------------- C26 ---------------- *)
\* C26: a configuration whose channel type has no registered strategy is never sent to and
\* gets one skipped logAttempt call; the iteration goes on to the next configuration, and
\* when the call has ended it has returned and every configuration with a registered
\* strategy, before or after the unknown one, was sent to.
UnknownChannelSkipped ==
  /\ \A i \in 1..Len(configs) :
       configs[i].channel_type \notin RegisteredChannels
         => /\ sendResults[i] = "none"
            /\ \A k \in LogsOfConfig(i) : logCalls[k].status = "skipped"
            /\ (idx > i \/ EngineEnded) => Cardinality(LogsOfConfig(i)) = 1
  /\ (EngineEnded /\ \E i \in 1..Len(configs) : configs[i].channel_type \notin RegisteredChannels)
       => /\ engineOutcome = Returned
          /\ idx = Len(configs)
          /\ \A j \in 1..Len(configs) :
               configs[j].channel_type \in RegisteredChannels => sendResults[j] # "none"

UnknownChannelSkippedWitness ==
  /\ EngineEnded
  /\ Len(configs) = 2
  /\ configs[1].channel_type = "cloud_speaker"
  /\ configs[2].channel_type = "wecom_bot"
  /\ logCalls[1].status = "skipped"
  /\ sendResults[2] = "ok"
  /\ Len(logCalls) = 2

(* ---------------- C27 ---------------- *)
\* C27: one call never makes more than ORDER_SERVICE_QUICK_RETRY_ATTEMPTS API attempts; an
\* attempt before the last that fails with a 5xx, network or timeout error is followed by
\* the retry delay, not by a throw; and an attempt answered 200 with a well-formed body
\* after a retryable failure ends the call with that order.
RetryRecovers ==
  /\ [](fetchCalls <= quickRetryAttempts /\ httpCalls <= quickRetryAttempts)
  /\ [][(pc = "r_attempt" /\ httpCalls' = httpCalls + 1
           /\ attemptsMade < quickRetryAttempts
           /\ apiOutcomes'[httpCalls'] \in RetryableOutcomes)
          => (pc' = "r_delay" /\ rres' = rres)]_vars
  /\ [][(pc = "r_attempt" /\ httpCalls' = httpCalls + 1
           /\ httpCalls >= 1
           /\ apiOutcomes[httpCalls] \in RetryableOutcomes
           /\ apiOutcomes'[httpCalls'] = "200ok")
          => (pc' = "e_resolved" /\ rres' = Resolved)]_vars

RetryRecoversWitness ==
  /\ pc = "e_resolved"
  /\ rres = Resolved
  /\ Len(apiOutcomes) = quickRetryAttempts
  /\ apiOutcomes[1] = "timeout"
  /\ apiOutcomes[quickRetryAttempts] = "200ok"

(* ---------------- C28 ---------------- *)
\* C28: the cache step ends the call only by returning a well-formed entry of the
\* requested store that Redis delivered; with an entry that is unparseable, lacks order_id
\* or belongs to another store, and with a failed read, it leaves the call without result
\* and goes on to the health check, as it does when the entry is absent.
BadCacheEntryIgnored ==
  /\ [][(pc = "r_cache" /\ pc' # "r_cache")
          => IF redisUp /\ cacheEntry = "valid"
             THEN rres' = Resolved
             ELSE /\ pc' = "r_health"
                  /\ rres' = NoResult
                  /\ <<attemptsMade', fetchCalls', httpCalls', apiOutcomes'>>
                       = <<0, 0, 0, <<>> >>]_vars
  /\ []((ResolverEnded /\ cacheEntry \in {"unparseable", "no_order_id", "other_store"}
           /\ rres = Resolved)
          => (fetchCalls >= 1 /\ apiOutcomes[Len(apiOutcomes)] = "200ok"))

BadCacheEntryIgnoredWitness ==
  /\ pc = "e_resolved"
  /\ cacheEntry = "other_store"
  /\ cacheReads = 1
  /\ rres = Resolved
  /\ apiOutcomes = <<"200ok">>

LoopNeverWaitsForWorker ==
  /\ [][\A l \in Loops :
          /\ (loopPc[l] # "sleep_full" /\ loopPc'[l] = "sleep_full")
               => activeCount' + pendingCount' >= STREAM_MAX_CONCURRENT_TASKS
          /\ (loopPc'[l] = "read"
                /\ <<loopPc[l], countToFetch[l]>> # <<loopPc'[l], countToFetch'[l]>>)
               => /\ activeCount' + pendingCount' < STREAM_MAX_CONCURRENT_TASKS
                  /\ countToFetch'[l] >= 1
                  /\ countToFetch'[l] =
                       Min(STREAM_MAX_CONCURRENT_TASKS - (activeCount' + pendingCount'),
                           STREAM_CONSUMER_BATCH_SIZE)]_vars
  /\ [][activeCount' + pendingCount' > activeCount + pendingCount
          => \E l \in Loops :
               /\ loopPc[l] = "read"
               /\ loopPc'[l] \in {"health", "read", "sleep_full"}
               /\ activeCount' + pendingCount' <= activeCount + pendingCount + countToFetch[l]
               /\ activeCount' >= activeCount]_vars
  /\ [][activeCount' + pendingCount' < activeCount + pendingCount
          => activeCount' + pendingCount' = activeCount + pendingCount - 1]_vars
  /\ [](\A l \in Loops :
          /\ loopPc[l] = "health" => ENABLED Loop_HealthReturns(l)
          /\ loopPc[l] = "read" => ENABLED Loop_ReadReturns(l)
          /\ loopPc[l] = "error_delay" => ENABLED Loop_ErrorDelayEnds(l)
          /\ (Sleeping(l) /\ ~timerCleared[l]) => ENABLED Loop_TimerFires(l))

\* The only live coroutine has issued an XREADGROUP while an earlier worker is still in
\* flight.
LoopNeverWaitsForWorkerWitness ==
  \E l \in Loops :
    /\ LiveLoops = {l}
    /\ starting = 0
    /\ isRunning
    /\ loopPc[l] = "read"
    /\ countToFetch[l] >= 1
    /\ activeCount >= 1

(* ---------------- C31 ---------------- *)
StartedALoop ==
  /\ isRunning'
  /\ Cardinality(LiveLoops') = Cardinality(LiveLoops) + 1
  /\ \E l \in LiveLoops' \ LiveLoops : loopPc'[l] \in {"health", "read", "sleep_full"}

\* C31: start() polls only after ensureConsumerGroup has resolved.  When XGROUP CREATE
\* answers OK or BUSYGROUP the consumer is running and one more pollMessages coroutine is
\* alive; when it fails otherwise the call changes nothing (isRunning, which was false when
\* the call tested it, is not set and no coroutine is started); a start() call on a running
\* consumer changes nothing and does not reach ensureConsumerGroup; and a coroutine appears
\* or isRunning becomes true only in a step that ends an ensureConsumerGroup call.
StartEnsuresGroup ==
  /\ [][Start_EnsuredOn("BUSYGROUP") => StartedALoop]_vars
  /\ [][Start_EnsuredOn("OK") => (StartedALoop /\ groupExists')]_vars
  /\ [][\A res \in {"other_error", "error_without_message"} :
          Start_EnsuredOn(res)
            => UNCHANGED <<isRunning, loopPc, countToFetch, pollTimeoutId, activeCount,
                           pendingCount, groupExists>>]_vars
  /\ [][(Start_Call /\ isRunning)
          => UNCHANGED <<isRunning, starting, loopPc, countToFetch, pollTimeoutId,
                         activeCount, pendingCount, groupExists>>]_vars
  /\ [][((~isRunning /\ isRunning') \/ LiveLoops' \ LiveLoops # {})
          => (starting' = starting - 1 /\ groupExists')]_vars

\* Two coroutines are alive: two ensureConsumerGroup calls have resolved, and the later one
\* found the group in place (BUSYGROUP).
StartEnsuresGroupWitness ==
  /\ isRunning
  /\ groupExists
  /\ starting = 0
  /\ Cardinality(LiveLoops) = 2

(* ---------------- C32 ---------------- *)
\* The coroutines that can still run: alive and not hung on a cleared timer.
ActiveLoops == {l \in LiveLoops : ~(Sleeping(l) /\ timerCleared[l])}

\* C32: at most one pollMessages coroutine of the consumer is active at any time.  In
\* particular a start() call made alone after stop() (isRunning is false, and start() was
\* called since the last stop()) begins to poll only when no coroutine of an earlier
\* start() is still active.
SinglePollingLoop ==
  [][(~isRunning /\ ~stopRequested /\ starting = 1 /\ LiveLoops' \ LiveLoops # {})
       => ActiveLoops = {}]_vars

(* ---------------- C33 ---------------- *)
\* C33: the attemptsMade of every CriticalOrderInfoError thrown by getOrderInfo equals the
\* number of HTTP requests the call has sent to the order API.
AttemptsMadeCountsRequests ==
  (ResolverEnded /\ rres.kind = "throw") => rres.attemptsMade = httpCalls

(* ---------------- C34 ---------------- *)
\* C34: when getStoreChannelConfigs caught an error of the configuration store, the engine
\* sees no configuration: it makes one logAttempt call with status skipped, invokes no
\* strategy and returns normally, and the finished worker has acknowledged the message.
ConfigFailureIsNoConfig ==
  configStoreFailed
    => /\ configLoads = 1
       /\ configs = <<>>
       /\ pc \in {"w_finish", "done"}
       /\ engineOutcome = Returned
       /\ sendResults = <<>>
       /\ Len(logCalls) = 1
       /\ logCalls[1].status = "skipped"
       /\ logCalls[1].channel_type = CONFIG_ISSUE_CHANNEL_MARKER
       /\ logCalls[1].valid
       /\ (pc = "done" => xacks = 1)

ConfigFailureIsNoConfigWitness ==
  /\ configStoreFailed
  /\ pc = "done"
  /\ rres.kind = "ok"
  /\ Len(logCalls) = 1
  /\ logCalls[1].status = "skipped"
  /\ xacks = 1

(* ---------------- C35 ---------------- *)
\* The worker of entry e has ended without issuing XACK.
Withheld(e) == task[e] = "settled" /\ xackCalls[e] = 0

\* C35: an entry whose worker ended without XACK was handed to a worker once, is in the
\* group's pending entries list, and from then on stays there and is never handed to a
\* worker again: every read returns entries after the group's last-delivered-id only.
WithheldNeverRetried ==
  /\ [](\A e \in Entries :
          Withheld(e) => (e \in pel /\ submitted[e] = 1 /\ engineRuns[e] = 1))
  /\ [][\A e \in Entries :
          Withheld(e) => (Withheld(e)' /\ e \in pel' /\ submitted'[e] = submitted[e])]_vars
  /\ [][\A e \in Entries :
          submitted'[e] # submitted[e] => (e > lastDelivered /\ e <= lastDelivered')]_vars

\* Entry 1 was withheld and a later read has delivered entry 2, whose worker has ended too.
WithheldNeverRetriedWitness ==
  /\ Withheld(1)
  /\ 1 \in pel
  /\ lastDelivered = 2
  /\ task[2] = "settled"
  /\ submitted[1] = 1

(* ---------------- C36 ---------------- *)
\* The XREADGROUP of coroutine l, in flight when stop() was called, answers with entries.
ReadAnswersAfterStop(l) ==
  /\ stoppedInRead[l]
  /\ ~stoppedInRead'[l]
  /\ lastDelivered' > lastDelivered

\* C36: the entries returned by a read that completes after stop() was called are not
\* handed to a worker and not acknowledged; they are in the pending entries list.
ReadAfterStopNotDispatched ==
  [][\A l \in Loops :
       ReadAnswersAfterStop(l) =>
         /\ submitted' = submitted
         /\ task' = task
         /\ xackCalls' = xackCalls
         /\ (lastDelivered + 1)..lastDelivered' \subseteq pel']_vars

(* ---------------- C37 ---------------- *)
\* C37: every entry a read has returned was handed to this.limit at most once, had
\* processNotificationEvent called for it at most once and XACK issued for it at most
\* once, and nothing is run or acknowledged that was not handed to a worker.
AtMostOnePerEntry ==
  \A e \in Entries :
    /\ submitted[e] <= 1
    /\ engineRuns[e] <= submitted[e]
    /\ xackCalls[e] <= submitted[e]
    /\ e > lastDelivered => submitted[e] = 0

\* Both entries were delivered while two coroutines were reading; the worker of entry 1
\* called the engine and acknowledged, the worker of entry 2 acknowledged an entry it
\* could not parse.
AtMostOnePerEntryWitness ==
  /\ Cardinality(LiveLoops) = 2
  /\ task[1] = "settled" /\ engineRuns[1] = 1 /\ xackCalls[1] = 1
  /\ task[2] = "settled" /\ engineRuns[2] = 0 /\ xackCalls[2] = 1

(* ---------------- C38 ---------------- *)
\* C38: a failed XREADGROUP does not end the coroutine while isRunning is true: it goes to
\* the error retry delay, and when the delay ends it starts the next iteration (or leaves,
\* if stop() was called meanwhile); no coroutine ever leaves its loop while isRunning is
\* true.  A failed XACK is swallowed: the worker issued one XACK, its entry stays
\* pending, and the limiter slot is free again (the limiter counts only unsettled tasks).
IterationErrorsAreSurvived ==
  /\ [][\A l \in Loops :
          (isRunning /\ loopPc[l] = "read" /\ loopPc'[l] # "read"
             /\ Loop_ReadReturnsOn(l, -1)) => loopPc'[l] = "error_delay"]_vars
  /\ [][\A l \in Loops :
          (loopPc[l] = "error_delay" /\ loopPc'[l] # "error_delay") =>
            IF isRunning THEN loopPc'[l] \in {"health", "read", "sleep_full"}
            ELSE loopPc'[l] = "exited"]_vars
  /\ [][\A l \in Loops :
          (l \in LiveLoops /\ l \notin LiveLoops') => ~isRunning]_vars
  /\ [](\A e \in Entries :
          (task[e] = "settled" /\ xackCalls[e] > 0 /\ e \in pel) => xackCalls[e] = 1)
  /\ [](activeCount + pendingCount =
          Cardinality({e \in Entries : task[e] \in {"running", "queued"}}))

\* A coroutine is in the error retry delay while the consumer is running, and a worker
\* whose XACK failed has ended: no task is left in the limiter.
IterationErrorsAreSurvivedWitness ==
  /\ isRunning
  /\ \E l \in Loops : loopPc[l] = "error_delay"
  /\ \E e \in Entries : task[e] = "settled" /\ xackCalls[e] = 1 /\ e \in pel
  /\ activeCount + pendingCount = 0
====
